---- MODULE Spec2Model ----
(***************************************************************************)
(* v-chat: the socket layer (server/src/socket/index.js), the message      *)
(* write path (server/src/controllers/message.controller.js) and the chat  *)
(* controller as a state machine.  One socket.io server process, one event *)
(* loop: every callback runs to its next await, so an action is one such   *)
(* run.                                                                    *)
(***************************************************************************)
EXTENDS Integers, Sequences, FiniteSets, TLC

\* ---------------------------------------------------------------- bounds
MaxOps   == 1            \* fan-out causing operations (typing, broadcasts)
MaxReqs  == 1            \* requests of each kind that ever start

Conns  == {1, 2}         \* the socket handles, in the order they connect
ReqIds == 1..MaxReqs

\* ------------------------------------------------------------ data store
UserIds  == {"u1", "u2"}          \* users whose clients connect
OfflineUserId == "u3"             \* a stored user whose client never connects
StoredUserIds == UserIds \cup {OfflineUserId}  \* the users collection
GhostId  == "u9"                  \* a token subject with no user document
ChatIds  == {"chat42"}            \* one-to-one chats of the chats collection
GroupChatIds == {"group7"}        \* group chats of the chats collection
NewChatIds == <<"chat43">>        \* the _id Chat.create gives its n-th document
RoomIds  == UserIds \cup ChatIds  \* ids a client can put in an event payload

NoUser == "null"
NoId   == "null"

\* participants array of each chat document (chat42 is a one-to-one chat)
ChatParticipants == [ch \in ChatIds |-> <<"u1", "u2">>]

elems(seq) == {seq[i] : i \in DOMAIN seq}

\* ------------------------------------------------------------- room keys
\* A socket.io room key is compared as a Map key: the string
\* user._id.toString() and the ObjectId user._id are different keys.
Str(id) == [t |-> "string", v |-> id]
Oid(id) == [t |-> "ObjectId", v |-> id]
toString(oid) == Str(oid.v)

\* --------------------------------------------------------------- events
ChatEventEnum ==
  [ CONNECTED_EVENT         |-> "connected",
    DISCONNECT_EVENT        |-> "disconnect",
    JOIN_CHAT_EVENT         |-> "joinChat",
    TYPING_EVENT            |-> "typing",
    STOP_TYPING_EVENT       |-> "stopTyping",
    MESSAGE_RECEIVED_EVENT  |-> "messageReceived",
    MESSAGE_DELETE_EVENT    |-> "messageDeleted",
    NEW_CHAT_EVENT          |-> "newChat",
    UPDATE_GROUP_NAME_EVENT |-> "updateGroupName",
    LEAVE_CHAT_EVENT        |-> "leaveChat",
    SOCKET_ERROR_EVENT      |-> "socketError" ]

\* events a client sends over an open connection
InboundEvents == { ChatEventEnum.JOIN_CHAT_EVENT,
                   ChatEventEnum.TYPING_EVENT,
                   ChatEventEnum.STOP_TYPING_EVENT }

\* events the write path hands to emitSocketEvent
WritePathEvents == { ChatEventEnum.MESSAGE_RECEIVED_EVENT,
                     ChatEventEnum.LEAVE_CHAT_EVENT }

\* --------------------------------------------------------------- tokens
\* A bearer token: present (a non-empty string), whether jwt.verify accepts
\* it, and the _id it carries.
NoToken      == [present |-> FALSE, verifies |-> FALSE, sub |-> NoId]
GoodToken(u) == [present |-> TRUE,  verifies |-> TRUE,  sub |-> u]
BadToken     == [present |-> TRUE,  verifies |-> FALSE, sub |-> "u1"]

\* the handshakes clients present: [cookie, auth]
Handshake(ck, au) == [cookie |-> ck, auth |-> au]
Handshakes ==
  { Handshake(NoToken, NoToken),
    Handshake(NoToken, BadToken),
    Handshake(NoToken, GoodToken(GhostId)),
    Handshake(NoToken, GoodToken("u2")),
    Handshake(GoodToken("u1"), NoToken),
    Handshake(GoodToken("u1"), GoodToken("u2")) }

MsgTokenMissing == "Unauthorized handshake. Token missing."
MsgJwtInvalid   == "invalid signature"
MsgUserNotFound == "Unauthenticated handshake. User not found."

\* jwt.verify(token, secret): the decoded payload, or a thrown error
jwtVerify(token) ==
  IF token.verifies THEN [ok |-> TRUE,  _id |-> token.sub, message |-> ""]
                    ELSE [ok |-> FALSE, _id |-> NoId, message |-> MsgJwtInvalid]

\* User.findById(id): the user document or null
findById(id) == IF id \in StoredUserIds THEN id ELSE NoUser

\* a choice that prefers the auth field to the cookie
handshakeTokenAuthFirst(hs) == IF hs.auth.present THEN hs.auth ELSE hs.cookie

\* cookies?.accessToken, else socket.handshake.auth?.token
handshakeToken(hs) == IF hs.cookie.present THEN hs.cookie ELSE hs.auth

VARIABLES
  connected,    \* socket.connected: the transport of the handle is open
  pc,           \* where the connection callback of the handle stands
  handshake,    \* socket.handshake: cookie token and auth token
  decodedToken, \* decodedToken._id held across the await
  socketUser,   \* socket.user
  listeners,    \* socket.on registrations, in registration order
  rooms,        \* the adapter's room map: room key -> set of handles
  inbox,        \* what each client has received, in order
  nOps,         \* fan-out causing operations so far
  joinedSince,  \* history: joins executed by the handle since it last closed
  explicitJoins,\* history: rooms joined through join-chat events
  wasActive,    \* history: the handle has been Active
  closedWith    \* history: the rooms the handle held when it closed

VARIABLES
  messages,     \* the messages collection
  chatLast,     \* lastMessage of each chat document
  msgSeq,       \* message documents created so far
  reqs,         \* the sendMessage requests: locals and position
  dels          \* the deleteMessage requests: locals and position

dbVars == <<messages, chatLast, msgSeq, reqs, dels>>

VARIABLES
  chats,        \* the chats collection: _id -> document
  chatSeq,      \* chat documents created so far
  calls         \* the chat controller requests: locals and position

chatVars == <<chats, chatSeq, calls>>

sockVars == <<connected, pc, handshake, decodedToken, socketUser, listeners,
              rooms, inbox, nOps, joinedSince, explicitJoins,
              wasActive, closedWith>>

\* ------------------------------------------------- the adapter's room map
membersOf(rs, r) == IF r \in DOMAIN rs THEN rs[r] ELSE {}

roomsOf(rs, c) == {r \in DOMAIN rs : c \in rs[r]}

\* a join that replaces the member set of the room
joinFresh(rs, r, c) ==
  [k \in (DOMAIN rs) \cup {r} |-> IF k = r THEN {c} ELSE rs[k]]

\* a join that drops the handle when it is already a member
addAllToggle(rs, r, c) ==
  IF c \in membersOf(rs, r)
  THEN [k \in DOMAIN rs |-> IF k = r THEN rs[k] \ {c} ELSE rs[k]]
  ELSE [k \in (DOMAIN rs) \cup {r} |->
          IF k = r THEN membersOf(rs, r) \cup {c} ELSE rs[k]]

\* adapter.addAll: the room is created when absent
addAll(rs, r, c) ==
  [k \in (DOMAIN rs) \cup {r} |->
      IF k = r THEN membersOf(rs, r) \cup {c} ELSE rs[k]]

\* socket.join(room); socket.io turns join into a no-op once the socket
\* has closed
join(rs, r, c) == IF connected[c] THEN addAll(rs, r, c) ELSE rs

\* socket.leave(room): adapter.del, an emptied room is deleted
leave(rs, r, c) ==
  LET keep == {k \in DOMAIN rs : k # r \/ rs[k] \ {c} # {}}
  IN  [k \in keep |-> IF k = r THEN rs[k] \ {c} ELSE rs[k]]

\* a cleanup that leaves the identity room only
leaveUserRoomOnly(rs, c) == leave(rs, Str(socketUser[c]), c)

\* a cleanup that stops after the first room
leaveFirstRoomOnly(rs, c) ==
  IF roomsOf(rs, c) = {} THEN rs
  ELSE leave(rs, CHOOSE r \in roomsOf(rs, c) : TRUE, c)

\* a cleanup that keeps the entry of a room it has emptied
leaveAllKeepEmpty(rs, c) == [k \in DOMAIN rs |-> rs[k] \ {c}]

\* the cleanup socket.io runs when a socket closes, before it dispatches
\* "disconnect": the socket leaves every room
leaveAll(rs, c) ==
  LET keep == {k \in DOMAIN rs : rs[k] \ {c} # {}}
  IN  [k \in keep |-> rs[k] \ {c}]

\* ------------------------------------------------------------- delivery
Packet(ev, payload, cause) == [ev |-> ev, payload |-> payload, cause |-> cause]

\* socket.emit(ev, payload): a packet to one client; a closed socket drops it
emitTo(ib, c, pkt) ==
  IF connected[c] THEN [ib EXCEPT ![c] = Append(@, pkt)] ELSE ib

\* <broadcast operator>.emit over a set of handles: one packet to each
\* socket of the set the server still holds
emitToAll(ib, targets, pkt) ==
  [c \in Conns |-> IF c \in targets /\ connected[c]
                   THEN Append(ib[c], pkt) ELSE ib[c]]

\* an emit that forgets the room: io.emit
emitEverywhere(ib, rs, roomId, event, payload, cause) ==
  emitToAll(ib, Conns, Packet(event, payload, cause))

\* emitSocketEvent(req, roomId, event, payload): io.in(roomId).emit
emitSocketEvent(ib, rs, roomId, event, payload, cause) ==
  emitToAll(ib, membersOf(rs, Str(roomId)), Packet(event, payload, cause))

\* ------------------------------------------------------------ listeners
mountJoinChatEvent ==
  [on |-> ChatEventEnum.JOIN_CHAT_EVENT, do |-> "join", emit |-> ""]

mountParticipantTypingEvent ==
  [on |-> ChatEventEnum.TYPING_EVENT, do |-> "emitToOthers",
   emit |-> ChatEventEnum.TYPING_EVENT]

mountParticipantStoppedTypingEvent ==
  [on |-> ChatEventEnum.TYPING_EVENT, do |-> "emitToOthers",
   emit |-> ChatEventEnum.TYPING_EVENT]

disconnectListener ==
  [on |-> ChatEventEnum.DISCONNECT_EVENT, do |-> "leaveUser", emit |-> ""]

\* a listener run whose join replays to the joiner what the room was sent
runListenerReplay(l, c, payload, cause, s) ==
  CASE l.do = "join" ->
         LET seen == {d \in membersOf(s.rooms, Str(payload)) \ {c} : TRUE}
             missed == IF seen = {} THEN <<>>
                       ELSE SelectSeq(s.inbox[CHOOSE d \in seen : TRUE],
                              LAMBDA pkt : pkt.cause > 0 /\ pkt.payload = payload)
         IN  [rooms |-> join(s.rooms, Str(payload), c),
              inbox |-> [s.inbox EXCEPT ![c] = @ \o missed]]
    [] l.do = "emitToOthers" ->
         [s EXCEPT !.inbox = emitToAll(s.inbox,
                                membersOf(s.rooms, Str(payload)) \ {c},
                                Packet(l.emit, payload, cause))]
    [] l.do = "leaveUser" ->
         IF socketUser[c] # NoUser
         THEN [s EXCEPT !.rooms = leave(s.rooms, Oid(socketUser[c]), c)]
         ELSE s
    [] OTHER -> s

\* one listener run: s is [rooms, inbox]
runListener(l, c, payload, cause, s) ==
  CASE l.do = "join" ->
         [s EXCEPT !.rooms = join(s.rooms, Str(payload), c)]
    [] l.do = "emitToOthers" ->
         \* socket.in(chatId).emit: the room's members except the sender
         [s EXCEPT !.inbox = emitToAll(s.inbox,
                                membersOf(s.rooms, Str(payload)) \ {c},
                                Packet(l.emit, payload, cause))]
    [] l.do = "leaveUser" ->
         IF socketUser[c] # NoUser
         THEN [s EXCEPT !.rooms = leave(s.rooms, Oid(socketUser[c]), c)]
         ELSE s
    [] OTHER -> s

\* the event emitter: every listener registered for ev runs, in order
RECURSIVE dispatch(_, _, _, _, _, _)
dispatch(ls, ev, c, payload, cause, s) ==
  IF ls = <<>> THEN s
  ELSE LET s1 == IF Head(ls).on = ev
                 THEN runListener(Head(ls), c, payload, cause, s) ELSE s
       IN  dispatch(Tail(ls), ev, c, payload, cause, s1)

\* ---------------------------------------------------------- lifecycle
\* the identity room keyed by the ObjectId instead of its string
identityRoomObjectId(user) == Oid(user)

\* user._id.toString(): the key of the identity room
identityRoom(user) == toString(Oid(user))

Active(c) == connected[c] /\ pc[c] = "done" /\ socketUser[c] # NoUser

\* a construction that registers the inbound listeners with the socket
SockInitListening ==
  /\ connected     = [c \in Conns |-> FALSE]
  /\ pc            = [c \in Conns |-> "idle"]
  /\ handshake     = [c \in Conns |-> Handshake(NoToken, NoToken)]
  /\ decodedToken  = [c \in Conns |-> NoId]
  /\ socketUser    = [c \in Conns |-> NoUser]
  /\ listeners     = [c \in Conns |-> << mountJoinChatEvent,
                                         mountParticipantTypingEvent >>]
  /\ rooms         = <<>>
  /\ inbox         = [c \in Conns |-> <<>>]
  /\ nOps          = 0
  /\ joinedSince   = [c \in Conns |-> {}]
  /\ explicitJoins = [c \in Conns |-> {}]
  /\ wasActive     = [c \in Conns |-> FALSE]
  /\ closedWith    = [c \in Conns |-> {}]

SockInit ==
  /\ connected     = [c \in Conns |-> FALSE]
  /\ pc            = [c \in Conns |-> "idle"]
  /\ handshake     = [c \in Conns |-> Handshake(NoToken, NoToken)]
  /\ decodedToken  = [c \in Conns |-> NoId]
  /\ socketUser    = [c \in Conns |-> NoUser]
  /\ listeners     = [c \in Conns |-> <<>>]
  /\ rooms         = <<>>
  /\ inbox         = [c \in Conns |-> <<>>]
  /\ nOps          = 0
  /\ joinedSince   = [c \in Conns |-> {}]
  /\ explicitJoins = [c \in Conns |-> {}]
  /\ wasActive     = [c \in Conns |-> FALSE]
  /\ closedWith    = [c \in Conns |-> {}]

\* the catch block of the connection callback: SOCKET_ERROR to the socket,
\* and nothing else
catchHandshakeError(c, message, conn) ==
  /\ inbox' = IF conn
              THEN [inbox EXCEPT ![c] = Append(@,
                      Packet(ChatEventEnum.SOCKET_ERROR_EVENT, message, 0))]
              ELSE inbox
  /\ pc' = [pc EXCEPT ![c] = "failed"]

\* io.on("connection"): a client connects and the callback runs up to the
\* await of User.findById, or into its catch block
Connect(c, hs) ==
  /\ pc[c] = "idle"
  /\ \A d \in Conns : d < c => pc[d] # "idle"   \* handles are issued in order
  /\ connected' = [connected EXCEPT ![c] = TRUE]
  /\ handshake' = [handshake EXCEPT ![c] = hs]
  /\ LET token   == handshakeToken(hs)
         decoded == jwtVerify(token)
     IN  IF ~token.present
         THEN /\ catchHandshakeError(c, MsgTokenMissing, TRUE)
              /\ UNCHANGED decodedToken
         ELSE IF ~decoded.ok
         THEN /\ catchHandshakeError(c, decoded.message, TRUE)
              /\ UNCHANGED decodedToken
         ELSE /\ pc' = [pc EXCEPT ![c] = "await"]
              /\ decodedToken' = [decodedToken EXCEPT ![c] = decoded._id]
              /\ UNCHANGED inbox
  /\ UNCHANGED <<socketUser, listeners, rooms, nOps, joinedSince,
                 explicitJoins, wasActive, closedWith>>
  /\ UNCHANGED <<dbVars, chatVars>>

\* the callback resumes with the result of User.findById
ResumeHandshake(c) ==
  /\ pc[c] = "await"
  /\ LET user == findById(decodedToken[c])
     IN  IF user = NoUser
         THEN /\ catchHandshakeError(c, MsgUserNotFound, connected[c])
              /\ UNCHANGED <<socketUser, listeners, rooms, joinedSince,
                             wasActive>>
         ELSE /\ socketUser' = [socketUser EXCEPT ![c] = user]
              /\ rooms' = join(rooms, identityRoom(user), c)
              /\ inbox' = emitTo(inbox, c,
                            Packet(ChatEventEnum.CONNECTED_EVENT, "", 0))
              /\ listeners' = [listeners EXCEPT ![c] =
                                 << mountJoinChatEvent,
                                    mountParticipantTypingEvent,
                                    mountParticipantStoppedTypingEvent,
                                    disconnectListener >>]
              /\ pc' = [pc EXCEPT ![c] = "done"]
              /\ joinedSince' = IF connected[c]
                                THEN [joinedSince EXCEPT ![c] =
                                        @ \cup {Str(user)}]
                                ELSE joinedSince
              /\ wasActive' = [wasActive EXCEPT ![c] = @ \/ connected[c]]
  /\ UNCHANGED <<connected, handshake, decodedToken, nOps,
                 explicitJoins, closedWith>>
  /\ UNCHANGED <<dbVars, chatVars>>

\* an inbound event of an open connection: join-chat, typing, stop-typing
ClientEvent(c, ev, chatId) ==
  /\ connected[c]
  /\ ev # ChatEventEnum.JOIN_CHAT_EVENT => nOps < MaxOps
  /\ LET fans  == ev # ChatEventEnum.JOIN_CHAT_EVENT
         cause == IF fans THEN nOps + 1 ELSE nOps
         s     == dispatch(listeners[c], ev, c, chatId, cause,
                           [rooms |-> rooms, inbox |-> inbox])
         heard == \E i \in 1..Len(listeners[c]) : listeners[c][i].on = ev
     IN  /\ rooms' = s.rooms
         /\ inbox' = s.inbox
         /\ nOps' = cause
         /\ IF heard /\ ev = ChatEventEnum.JOIN_CHAT_EVENT
            THEN /\ joinedSince' = [joinedSince EXCEPT ![c] =
                                      @ \cup {Str(chatId)}]
                 /\ explicitJoins' = [explicitJoins EXCEPT ![c] =
                                        @ \cup {Str(chatId)}]
            ELSE UNCHANGED <<joinedSince, explicitJoins>>
  /\ UNCHANGED <<connected, pc, handshake, decodedToken, socketUser,
                 listeners, wasActive, closedWith>>
  /\ UNCHANGED <<dbVars, chatVars>>

\* the transport of an open connection closes (client disconnect): the
\* socket leaves every room, then the "disconnect" listeners run
TransportClose(c) ==
  /\ connected[c]
  /\ connected' = [connected EXCEPT ![c] = FALSE]
  /\ LET s == dispatch(listeners[c], ChatEventEnum.DISCONNECT_EVENT, c, "",
                       nOps, [rooms |-> leaveAll(rooms, c), inbox |-> inbox])
     IN  /\ rooms' = s.rooms
         /\ inbox' = s.inbox
  /\ closedWith' = [closedWith EXCEPT ![c] = roomsOf(rooms, c)]
  /\ joinedSince' = [joinedSince EXCEPT ![c] = {}]
  /\ explicitJoins' = [explicitJoins EXCEPT ![c] = {}]
  /\ UNCHANGED <<pc, handshake, decodedToken, socketUser, listeners, nOps,
                 wasActive>>
  /\ UNCHANGED <<dbVars, chatVars>>

\* a write-path collaborator calls emitSocketEvent(req, roomId, event, ..)
Broadcast(roomId, event) ==
  /\ nOps < MaxOps
  /\ nOps' = nOps + 1
  /\ inbox' = emitSocketEvent(inbox, rooms, roomId, event, roomId, nOps + 1)
  /\ UNCHANGED <<connected, pc, handshake, decodedToken, socketUser,
                 listeners, rooms, joinedSince, explicitJoins, wasActive,
                 closedWith>>
  /\ UNCHANGED <<dbVars, chatVars>>

\* ------------------------------------------------- message.controller.js
\* the identifiers the module binds: its imports and its own constants
MessageControllerBindings ==
  { "mongoose", "Chat", "Message", "emitSocketEvent", "apiError",
    "apiResponse", "asyncHandler", "getLocalPath", "getStatisFilePath",
    "removeLocalFile", "messageCommonAggregation", "getAllMessages",
    "sendMessage", "deleteMessage" }

\* evaluating an identifier the module does not bind throws ReferenceError
Bound(name) == name \in MessageControllerBindings

NoReq == [pc |-> "idle", user |-> NoUser, chatId |-> NoId, content |-> FALSE,
          files |-> FALSE, parts |-> <<>>, msg |-> 0, status |-> 0]

MissingChatId == "chat0"          \* an id with no chat document
RequestChatIds == ChatIds \cup {MissingChatId}

NoDel == [pc |-> "idle", user |-> NoUser, chatId |-> NoId, msg |-> 0,
          parts |-> <<>>, last |-> 0, sender |-> NoUser, newLast |-> 0,
          status |-> 0, committed |-> FALSE]

DbInit ==
  /\ messages = {}
  /\ chatLast = [ch \in ChatIds |-> 0]
  /\ msgSeq   = 0
  /\ reqs     = [r \in ReqIds |-> NoReq]
  /\ dels     = [r \in ReqIds |-> NoDel]

Respond(r, status) ==
  reqs' = [reqs EXCEPT ![r].pc = "done", ![r].status = status]

\* sendMessage up to the await of Chat.findById
SendMessageStart(r, user, chatId, content, files) ==
  /\ reqs[r].pc = "idle"
  /\ \A q \in ReqIds : q < r => reqs[q].pc # "idle"
  /\ IF ~content /\ ~files
     THEN reqs' = [reqs EXCEPT ![r] =
                     [NoReq EXCEPT !.pc = "done", !.user = user,
                                   !.chatId = chatId, !.status = 400]]
     ELSE reqs' = [reqs EXCEPT ![r] =
                     [NoReq EXCEPT !.pc = "findById", !.user = user,
                                   !.chatId = chatId, !.content = content,
                                   !.files = files]]
  /\ UNCHANGED <<messages, chatLast, msgSeq>>
  /\ UNCHANGED <<sockVars, chatVars, dels>>

\* Chat.findById answers; the attachments are mapped; Message.create is
\* issued
SendMessageFound(r) ==
  /\ reqs[r].pc = "findById"
  /\ IF reqs[r].chatId \notin DOMAIN chats
     THEN Respond(r, 404)
     ELSE IF reqs[r].files /\ ~Bound("getStaticFilePath")
     THEN Respond(r, 500)
     ELSE reqs' = [reqs EXCEPT ![r].pc = "create",
                               ![r].parts = chats[reqs[r].chatId].participants]
  /\ UNCHANGED <<messages, chatLast, msgSeq>>
  /\ UNCHANGED <<sockVars, chatVars, dels>>

\* Message.create commits; Chat.findByIdAndUpdate is issued
SendMessageCreated(r) ==
  /\ reqs[r].pc = "create"
  /\ msgSeq' = msgSeq + 1
  /\ messages' = messages \cup
       {[id |-> msgSeq + 1, sender |-> reqs[r].user, chat |-> reqs[r].chatId]}
  /\ reqs' = [reqs EXCEPT ![r].pc = "update", ![r].msg = msgSeq + 1]
  /\ UNCHANGED chatLast
  /\ UNCHANGED <<sockVars, chatVars, dels>>

\* Chat.findByIdAndUpdate commits lastMessage; Message.aggregate is issued
SendMessageUpdated(r) ==
  /\ reqs[r].pc = "update"
  /\ chatLast' = IF reqs[r].chatId \in DOMAIN chats
                 THEN [chatLast EXCEPT ![reqs[r].chatId] = reqs[r].msg]
                 ELSE chatLast
  /\ reqs' = [reqs EXCEPT ![r].pc = "aggregate"]
  /\ UNCHANGED <<messages, msgSeq>>
  /\ UNCHANGED <<sockVars, chatVars, dels>>

\* chat.participants.forEach of sendMessage: s is [inbox, threw]
RECURSIVE forEachParticipant(_, _, _, _, _)
forEachParticipant(parts, user, msg, cause, s) ==
  IF parts = <<>> \/ s.threw THEN s
  ELSE LET p  == Head(parts)
           s1 == IF p = user THEN s
                 ELSE IF ~Bound("ChatEventEnum")
                 THEN [s EXCEPT !.threw = TRUE]
                 ELSE [s EXCEPT !.inbox =
                         emitSocketEvent(s.inbox, rooms, p,
                           ChatEventEnum.MESSAGE_RECEIVED_EVENT, msg, cause)]
       IN  forEachParticipant(Tail(parts), user, msg, cause, s1)

\* Message.aggregate answers; the participants are notified; the response
\* is built
SendMessageFanout(r) ==
  /\ reqs[r].pc = "aggregate"
  /\ nOps < MaxOps
  /\ LET receivedMessage == {m \in messages : m.id = reqs[r].msg}
         s == forEachParticipant(reqs[r].parts,
                reqs[r].user, reqs[r].msg, nOps + 1,
                [inbox |-> inbox, threw |-> FALSE])
     IN  IF receivedMessage = {}
         THEN /\ Respond(r, 500)
              /\ UNCHANGED <<inbox, nOps>>
         ELSE /\ inbox' = s.inbox
              /\ nOps' = nOps + 1
              /\ Respond(r, IF s.threw \/ ~Bound("ApiResponse")
                            THEN 500 ELSE 201)
  /\ UNCHANGED <<messages, chatLast, msgSeq>>
  /\ UNCHANGED <<connected, pc, handshake, decodedToken, socketUser,
                 listeners, rooms, joinedSince, explicitJoins, wasActive,
                 closedWith>>
  /\ UNCHANGED <<chatVars, dels>>

\* req.params.messageId: the ids Message.create has given, and one it has not
MessageIds == 0..MaxReqs

DelRespond(r, status) ==
  dels' = [dels EXCEPT ![r].pc = "done", ![r].status = status]

\* deleteMessage up to the await of Chat.findOne
DeleteMessageStart(r, user, chatId, messageId) ==
  /\ dels[r].pc = "idle"
  /\ \A q \in ReqIds : q < r => dels[q].pc # "idle"
  /\ dels' = [dels EXCEPT ![r] =
                [NoDel EXCEPT !.pc = "findChat", !.user = user,
                              !.chatId = chatId, !.msg = messageId]]
  /\ UNCHANGED <<messages, chatLast, msgSeq, reqs>>
  /\ UNCHANGED <<sockVars, chatVars>>

\* Chat.findOne({_id, participants: req.user._id}) answers; Message.findOne
\* is issued
DeleteMessageFoundChat(r) ==
  /\ dels[r].pc = "findChat"
  /\ IF \/ dels[r].chatId \notin DOMAIN chats
        \/ dels[r].user \notin elems(chats[dels[r].chatId].participants)
     THEN DelRespond(r, 404)
     ELSE dels' = [dels EXCEPT ![r].pc = "findMessage",
                     ![r].parts = chats[dels[r].chatId].participants,
                     ![r].last = IF dels[r].chatId \in DOMAIN chatLast
                                 THEN chatLast[dels[r].chatId] ELSE 0]
  /\ UNCHANGED <<messages, chatLast, msgSeq, reqs>>
  /\ UNCHANGED <<sockVars, chatVars>>

\* Message.findOne({_id}) answers; the sender is checked, the attachments
\* are removed, Message.deleteOne is issued
DeleteMessageFoundMessage(r) ==
  /\ dels[r].pc = "findMessage"
  /\ LET found == {m \in messages : m.id = dels[r].msg}
     IN  IF found = {} THEN DelRespond(r, 404)
         ELSE IF \E m \in found : m.sender # dels[r].user
         THEN DelRespond(r, 403)
         ELSE dels' = [dels EXCEPT ![r].pc = "deleteOne"]
  /\ UNCHANGED <<messages, chatLast, msgSeq, reqs>>
  /\ UNCHANGED <<sockVars, chatVars>>

\* chat.participants.forEach of deleteMessage: s is [inbox, threw]
RECURSIVE forEachParticipantObjectId(_, _, _, _, _)
forEachParticipantObjectId(parts, user, msg, cause, s) ==
  IF parts = <<>> \/ s.threw THEN s
  ELSE LET p  == Head(parts)
           s1 == IF p = user THEN s
                 ELSE IF ~Bound("ChatEventEnum")
                 THEN [s EXCEPT !.threw = TRUE]
                 ELSE [s EXCEPT !.inbox =
                         emitSocketEvent(s.inbox, rooms, p,
                           ChatEventEnum.MESSAGE_DELETE_EVENT, msg, cause)]
       IN  forEachParticipantObjectId(Tail(parts), user, msg, cause, s1)

\* the end of deleteMessage: the participants are notified and the
\* response is built
DeleteMessageNotify(r) ==
  LET s == forEachParticipantObjectId(dels[r].parts, dels[r].user,
             dels[r].msg, nOps + 1, [inbox |-> inbox, threw |-> FALSE])
      emitted == s.inbox # inbox
  IN  /\ emitted => nOps < MaxOps
      /\ inbox' = s.inbox
      /\ nOps' = IF emitted THEN nOps + 1 ELSE nOps
      /\ dels' = [dels EXCEPT ![r].pc = "done", ![r].committed = TRUE,
                    ![r].status = IF s.threw \/ ~Bound("apiResponse")
                                  THEN 500 ELSE 200]

\* Message.deleteOne commits; chat.lastMessage is compared with the message
DeleteMessageDeleted(r) ==
  /\ dels[r].pc = "deleteOne"
  /\ messages' = {m \in messages : m.id # dels[r].msg}
  /\ IF dels[r].last = 0
     THEN \* chat.lastMessage.toString() of a chat without lastMessage
          /\ dels' = [dels EXCEPT ![r].pc = "done", ![r].status = 500,
                                  ![r].committed = TRUE]
          /\ UNCHANGED <<inbox, nOps>>
     ELSE IF dels[r].last = dels[r].msg
     THEN /\ dels' = [dels EXCEPT ![r].pc = "findLast",
                                  ![r].committed = TRUE]
          /\ UNCHANGED <<inbox, nOps>>
     ELSE DeleteMessageNotify(r)
  /\ UNCHANGED <<chatLast, msgSeq, reqs>>
  /\ UNCHANGED <<connected, pc, handshake, decodedToken, socketUser,
                 listeners, rooms, joinedSince, explicitJoins, wasActive,
                 closedWith>>
  /\ UNCHANGED chatVars

\* Message.findOne({chat}, sort createdAt -1) answers;
\* Chat.findByIdAndUpdate is issued
DeleteMessageFoundLast(r) ==
  /\ dels[r].pc = "findLast"
  /\ LET ofChat == {m.id : m \in {x \in messages : x.chat = dels[r].chatId}}
         latest == IF ofChat = {} THEN 0
                   ELSE CHOOSE i \in ofChat : \A j \in ofChat : j <= i
     IN  dels' = [dels EXCEPT ![r].pc = "updateLast", ![r].newLast = latest]
  /\ UNCHANGED <<messages, chatLast, msgSeq, reqs>>
  /\ UNCHANGED <<sockVars, chatVars>>

\* Chat.findByIdAndUpdate commits lastMessage; the participants are notified
DeleteMessageUpdatedLast(r) ==
  /\ dels[r].pc = "updateLast"
  /\ chatLast' = IF dels[r].chatId \in DOMAIN chats
                 THEN [chatLast EXCEPT ![dels[r].chatId] = dels[r].newLast]
                 ELSE chatLast
  /\ DeleteMessageNotify(r)
  /\ UNCHANGED <<messages, msgSeq, reqs>>
  /\ UNCHANGED <<connected, pc, handshake, decodedToken, socketUser,
                 listeners, rooms, joinedSince, explicitJoins, wasActive,
                 closedWith>>
  /\ UNCHANGED chatVars


\* ------------------------------------------------------ chat controller
\* (src/unnamed/part_000) the identifiers the module binds: its imports and
\* its own constants
ChatControllerBindings ==
  { "mongoose", "User", "Chat", "Message", "asyncHandler", "apiResponse",
    "apiError", "ChatEventEnum", "emitSocketEvent", "removeLocalFile",
    "chatCommonAggregation", "deleteCascadeChatMessages",
    "searchAvailableUsers", "createOrAccessOneToOneChat", "createGroupChat",
    "getGroupChatDetails", "renameGroupChat", "deleteGroupChat",
    "deleteOneToOneChat", "leaveGroupChat", "addParticipantInGroupChat",
    "removeParticipantFromGroupChat", "getAllChats" }

\* evaluating an identifier the module does not bind throws ReferenceError
BoundInChat(name) == name \in ChatControllerBindings

\* the constructors of mongoose.Types; new of anything else is a TypeError
MongooseTypes ==
  { "Array", "Buffer", "Decimal128", "DocumentArray", "Map", "ObjectId",
    "Subdocument" }

\* the properties an authenticated request carries; reading a property of
\* an undefined one is a TypeError
RequestFields == { "app", "body", "files", "params", "user" }

ChatDoc(name, isGroupChat, participants, admin) ==
  [name |-> name, isGroupChat |-> isGroupChat,
   participants |-> participants, admin |-> admin]

NoChat == ChatDoc("", FALSE, <<>>, NoUser)

\* req.body.participants of createGroupChat
ParticipantLists == { <<"u2", "u3">>, <<"u1", "u3">>, <<"u3">>,
                      <<"u1", "u2", "u3">> }

NoCall == [op |-> "", pc |-> "idle", user |-> NoUser, chatId |-> NoId,
           arg |-> NoId, name |-> "", members |-> <<>>, chat |-> NoChat,
           status |-> 0, committed |-> FALSE, cause |-> 0]

ChatInit ==
  /\ chats = [ch \in ChatIds \cup GroupChatIds |->
                IF ch \in ChatIds
                THEN ChatDoc("One-to-one Chat", FALSE, ChatParticipants[ch],
                             ChatParticipants[ch][1])
                ELSE ChatDoc("team", TRUE, <<"u1", "u2", "u3">>, "u1")]
  /\ chatSeq = 0
  /\ calls = [r \in ReqIds |-> NoCall]

\* $pull of one id from a participants array
pull(seq, x) == SelectSeq(seq, LAMBDA p : p # x)

\* chatCommonAggregation: participants are replaced by the user documents
\* $lookup finds
chatCommonAggregation(doc) ==
  [doc EXCEPT !.participants = SelectSeq(@, LAMBDA p : findById(p) # NoUser)]

\* what a handler step reads and writes besides its own locals
Store == [chats |-> chats, chatSeq |-> chatSeq, inbox |-> inbox,
          nOps |-> nOps, messages |-> messages]

Ret(call, st) == [call |-> call, st |-> st]

\* the response is sent (res.status(..).json(..), or asyncHandler's catch)
Answer(c, status) == [c EXCEPT !.pc = "done", !.status = status]

\* participants.forEach(p => { if (p is skip) return; <fn>(req, p, event,
\* payload) }): s is [inbox, threw]
RECURSIVE notifyParticipants(_, _, _, _, _, _, _)
notifyParticipants(parts, skip, fn, event, payload, cause, s) ==
  IF parts = <<>> \/ s.threw THEN s
  ELSE LET p  == Head(parts)
           s1 == IF p = skip THEN s
                 ELSE IF ~BoundInChat(fn)
                 THEN [s EXCEPT !.threw = TRUE]
                 ELSE [s EXCEPT !.inbox =
                         emitSocketEvent(s.inbox, rooms, p, event, payload,
                                         cause)]
       IN  notifyParticipants(Tail(parts), skip, fn, event, payload, cause, s1)

\* a handler's notification step: operation number nOps + 1
Notified(c, st, parts, skip, fn, event, okStatus) ==
  LET n == notifyParticipants(parts, skip, fn, event, c.chatId, st.nOps + 1,
                              [inbox |-> st.inbox, threw |-> FALSE])
  IN  Ret([Answer(c, IF n.threw THEN 500 ELSE okStatus)
             EXCEPT !.cause = st.nOps + 1],
          [st EXCEPT !.inbox = n.inbox, !.nOps = @ + 1])

\* createOrAccessOneToOneChat after its first await
createOrAccessOneToOneChat(c, st) ==
  CASE c.pc = "findReceiver" ->
         IF findById(c.arg) = NoUser THEN Ret(Answer(c, 404), st)
         ELSE IF "Object" \notin MongooseTypes
         THEN Ret(Answer(c, 500), st)   \* new mongoose.Types.Object(..)
         ELSE Ret([c EXCEPT !.pc = "aggregate"], st)
    [] c.pc = "aggregate" ->
         IF \E ch \in DOMAIN st.chats :
              /\ ~st.chats[ch].isGroupChat
              /\ {c.user, c.arg} \subseteq elems(st.chats[ch].participants)
         THEN Ret(Answer(c, 200), st)
         ELSE Ret([c EXCEPT !.pc = "create"], st)
    [] c.pc = "create" ->
         LET id == NewChatIds[st.chatSeq + 1]
         IN  Ret([c EXCEPT !.pc = "created", !.chatId = id,
                           !.committed = TRUE],
                 [st EXCEPT !.chatSeq = @ + 1,
                            !.chats = [ch \in DOMAIN @ \cup {id} |->
                               IF ch = id
                               THEN ChatDoc("One-to-one Chat", FALSE,
                                            <<c.user, c.arg>>, c.user)
                               ELSE @[ch]]])
    [] c.pc = "created" ->
         IF c.chatId \notin DOMAIN st.chats THEN Ret(Answer(c, 500), st)
         ELSE Notified(c, st,
                chatCommonAggregation(st.chats[c.chatId]).participants,
                c.user, "emmitSocketEvent", ChatEventEnum.NEW_CHAT_EVENT, 201)
    [] OTHER -> Ret(c, st)

\* createGroupChat after its first await
createGroupChat(c, st) ==
  CASE c.pc = "create" ->
         LET id == NewChatIds[st.chatSeq + 1]
         IN  Ret([c EXCEPT !.pc = "created", !.chatId = id,
                           !.committed = TRUE],
                 [st EXCEPT !.chatSeq = @ + 1,
                            !.chats = [ch \in DOMAIN @ \cup {id} |->
                               IF ch = id
                               THEN ChatDoc(c.name, TRUE, c.members, c.user)
                               ELSE @[ch]]])
    [] c.pc = "created" ->
         IF c.chatId \notin DOMAIN st.chats THEN Ret(Answer(c, 500), st)
         ELSE Notified(c, st,
                chatCommonAggregation(st.chats[c.chatId]).participants,
                c.user, "emmitSocketEvent", ChatEventEnum.NEW_CHAT_EVENT, 201)
    [] OTHER -> Ret(c, st)

\* renameGroupChat after its first await
renameGroupChat(c, st) ==
  CASE c.pc = "findOne" ->
         IF c.chatId \notin DOMAIN st.chats
            \/ ~st.chats[c.chatId].isGroupChat
         THEN Ret(Answer(c, 404), st)
         ELSE IF "ser" \notin RequestFields
         THEN Ret(Answer(c, 500), st)   \* req.ser._id
         ELSE IF st.chats[c.chatId].admin # c.user
         THEN Ret(Answer(c, 403), st)
         ELSE Ret([c EXCEPT !.pc = "update"], st)
    [] c.pc = "update" ->
         IF c.chatId \notin DOMAIN st.chats THEN Ret(Answer(c, 500), st)
         ELSE Ret([c EXCEPT !.pc = "updated", !.committed = TRUE],
                  [st EXCEPT !.chats[c.chatId].name = c.name])
    [] c.pc = "updated" ->
         IF c.chatId \notin DOMAIN st.chats THEN Ret(Answer(c, 500), st)
         ELSE Notified(c, st,
                chatCommonAggregation(st.chats[c.chatId]).participants,
                NoUser, "emmitSocketEvent",
                ChatEventEnum.UPDATE_GROUP_NAME_EVENT, 200)
    [] OTHER -> Ret(c, st)

\* deleteCascadeChatMessages: Message.deleteMany of the chat's messages
deleteCascadeChatMessages(msgs, chatId) == {m \in msgs : m.chat # chatId}

\* Chat.findByIdAndDelete
findByIdAndDelete(cs, chatId) == [ch \in DOMAIN cs \ {chatId} |-> cs[ch]]

\* deleteGroupChat after its first await
deleteGroupChat(c, st) ==
  CASE c.pc = "aggregate" ->
         IF c.chatId \notin DOMAIN st.chats
            \/ ~st.chats[c.chatId].isGroupChat
         THEN Ret(Answer(c, 500), st)   \* [] is truthy, chat[0] is not
         ELSE IF st.chats[c.chatId].admin # c.user
         THEN Ret(Answer(c, 403), st)
         ELSE Ret([c EXCEPT !.pc = "delete",
                     !.chat = chatCommonAggregation(st.chats[c.chatId])], st)
    [] c.pc = "delete" ->
         Ret([c EXCEPT !.pc = "find",
                       !.committed = c.chatId \in DOMAIN st.chats],
             [st EXCEPT !.chats = findByIdAndDelete(@, c.chatId)])
    [] c.pc = "find" -> Ret([c EXCEPT !.pc = "deleteMany"], st)
    [] c.pc = "deleteMany" ->
         Notified(c,
           [st EXCEPT !.messages = deleteCascadeChatMessages(@, c.chatId)],
           c.chat.participants, c.user, "emmitSocketEvent",
           ChatEventEnum.LEAVE_CHAT_EVENT, 200)
    [] OTHER -> Ret(c, st)

\* deleteOneToOneChat after its first await
deleteOneToOneChat(c, st) ==
  CASE c.pc = "aggregate" ->
         IF c.chatId \notin DOMAIN st.chats
         THEN Ret(Answer(c, 500), st)
         ELSE Ret([c EXCEPT !.pc = "delete",
                     !.chat = chatCommonAggregation(st.chats[c.chatId])], st)
    [] c.pc = "delete" ->
         Ret([c EXCEPT !.pc = "find",
                       !.committed = c.chatId \in DOMAIN st.chats],
             [st EXCEPT !.chats = findByIdAndDelete(@, c.chatId)])
    [] c.pc = "find" -> Ret([c EXCEPT !.pc = "deleteMany"], st)
    [] c.pc = "deleteMany" ->
         LET others == pull(c.chat.participants, c.user)
             otherParticipant == IF others = <<>> THEN NoId ELSE Head(others)
         IN  Notified(c,
               [st EXCEPT !.messages = deleteCascadeChatMessages(@, c.chatId)],
               <<otherParticipant>>, "", "emmitSocketEvent",
               ChatEventEnum.LEAVE_CHAT_EVENT, 200)
    [] OTHER -> Ret(c, st)

\* the body leaveGroupChat wraps, after its first await: it notifies nobody
leaveGroupChat(c, st) ==
  CASE c.pc = "findOne" ->
         IF c.chatId \notin DOMAIN st.chats
            \/ ~st.chats[c.chatId].isGroupChat
         THEN Ret(Answer(c, 404), st)
         ELSE IF c.user \notin elems(st.chats[c.chatId].participants)
         THEN Ret(Answer(c, 400), st)
         ELSE Ret([c EXCEPT !.pc = "update"], st)
    [] c.pc = "update" ->
         IF c.chatId \notin DOMAIN st.chats
         THEN Ret(Answer(c, 500), st)   \* updatedGroupChat is null
         ELSE Ret([c EXCEPT !.pc = "updated", !.committed = TRUE],
                  [st EXCEPT !.chats[c.chatId].participants = pull(@, c.user)])
    [] c.pc = "updated" ->
         Ret(Answer(c, IF c.chatId \in DOMAIN st.chats THEN 200 ELSE 500), st)
    [] OTHER -> Ret(c, st)

\* a removal that notifies the participant before it checks and commits
removeParticipantNotifiesFirst(c, st) ==
  CASE c.pc = "findOne" ->
         Ret([c EXCEPT !.pc = "update", !.cause = st.nOps + 1],
             [st EXCEPT !.nOps = @ + 1,
                        !.inbox = emitSocketEvent(@, rooms, c.arg,
                                    ChatEventEnum.LEAVE_CHAT_EVENT, c.chatId,
                                    st.nOps + 1)])
    [] c.pc = "update" ->
         IF c.chatId \notin DOMAIN st.chats
            \/ c.arg \notin elems(st.chats[c.chatId].participants)
         THEN Ret(Answer(c, 400), st)
         ELSE Ret([c EXCEPT !.pc = "updated", !.committed = TRUE],
                  [st EXCEPT !.chats[c.chatId].participants = pull(@, c.arg)])
    [] c.pc = "updated" -> Ret(Answer(c, 200), st)
    [] OTHER -> Ret(c, st)

\* removeParticipantFromGroupChat after its first await
removeParticipantFromGroupChat(c, st) ==
  CASE c.pc = "findOne" ->
         IF c.chatId \notin DOMAIN st.chats
            \/ ~st.chats[c.chatId].isGroupChat
         THEN Ret(Answer(c, 404), st)
         ELSE IF st.chats[c.chatId].admin # c.user
         THEN Ret(Answer(c, 404), st)
         ELSE IF c.arg \notin elems(st.chats[c.chatId].participants)
         THEN Ret(Answer(c, 400), st)
         ELSE Ret([c EXCEPT !.pc = "update"], st)
    [] c.pc = "update" ->
         IF c.chatId \notin DOMAIN st.chats
         THEN Ret(Answer(c, 500), st)   \* updatedChat is null
         ELSE Ret([c EXCEPT !.pc = "updated", !.committed = TRUE],
                  [st EXCEPT !.chats[c.chatId].participants = pull(@, c.arg)])
    [] c.pc = "updated" ->
         IF c.chatId \notin DOMAIN st.chats
         THEN Ret(Answer(c, 500), st)
         ELSE Notified(c, st, <<c.arg>>, "", "emitSocketEvent",
                       ChatEventEnum.LEAVE_CHAT_EVENT, 200)
    [] OTHER -> Ret(c, st)

\* a handler step takes effect
ApplyChat(r, e) ==
  /\ e.st.nOps <= MaxOps
  /\ calls'    = [calls EXCEPT ![r] = e.call]
  /\ chats'    = e.st.chats
  /\ chatSeq'  = e.st.chatSeq
  /\ inbox'    = e.st.inbox
  /\ nOps'     = e.st.nOps
  /\ messages' = e.st.messages
  /\ UNCHANGED <<connected, pc, handshake, decodedToken, socketUser,
                 listeners, rooms, joinedSince, explicitJoins, wasActive,
                 closedWith>>
  /\ UNCHANGED <<chatLast, msgSeq, reqs, dels>>

\* a request reaches a handler, which runs to its first await
StartCall(r, call) ==
  /\ \A q \in ReqIds : q < r => calls[q].pc # "idle"
  /\ ApplyChat(r, Ret(call, Store))

CreateOrAccessOneToOneChatCall(r, user, receiverId) ==
  LET c == [NoCall EXCEPT !.op = "createOrAccessOneToOneChat",
                          !.user = user, !.arg = receiverId]
  IN  /\ calls[r].pc = "idle"
      /\ StartCall(r, IF receiverId = user THEN Answer(c, 400)
                   ELSE [c EXCEPT !.pc = "findReceiver"])

CreateGroupChatCall(r, user, name, participants) ==
  LET c == [NoCall EXCEPT !.op = "createGroupChat", !.user = user,
                          !.name = name]
      members == participants \o <<user>>
  IN  /\ calls[r].pc = "idle"
      /\ StartCall(r, IF user \in elems(participants) THEN Answer(c, 400)
                   ELSE IF Len(members) < 3 THEN Answer(c, 400)
                   ELSE [c EXCEPT !.pc = "create", !.members = members])

RenameGroupChatCall(r, user, chatId, name) ==
  /\ calls[r].pc = "idle"
  /\ StartCall(r, [NoCall EXCEPT !.op = "renameGroupChat", !.user = user,
                  !.chatId = chatId, !.name = name, !.pc = "findOne"])

DeleteGroupChatCall(r, user, chatId) ==
  /\ calls[r].pc = "idle"
  /\ StartCall(r, [NoCall EXCEPT !.op = "deleteGroupChat", !.user = user,
                  !.chatId = chatId, !.pc = "aggregate"])

DeleteOneToOneChatCall(r, user, chatId) ==
  /\ calls[r].pc = "idle"
  /\ StartCall(r, [NoCall EXCEPT !.op = "deleteOneToOneChat", !.user = user,
                  !.chatId = chatId, !.pc = "aggregate"])

\* the route of leaveGroupChat: the module's `aasyncHandler(..)` names no
\* binding, so no handler exists to run the body
LeaveGroupChatCall(r, user, chatId) ==
  LET c == [NoCall EXCEPT !.op = "leaveGroupChat", !.user = user,
                          !.chatId = chatId]
  IN  /\ calls[r].pc = "idle"
      /\ StartCall(r, IF ~BoundInChat("aasyncHandler") THEN Answer(c, 500)
                   ELSE [c EXCEPT !.pc = "findOne"])

RemoveParticipantFromGroupChatCall(r, user, chatId, participantId) ==
  /\ calls[r].pc = "idle"
  /\ StartCall(r, [NoCall EXCEPT !.op = "removeParticipantFromGroupChat",
                  !.user = user, !.chatId = chatId, !.arg = participantId,
                  !.pc = "findOne"])

\* the handler of a request, by the route it came in on
chatHandler(c, st) ==
  CASE c.op = "createOrAccessOneToOneChat" -> createOrAccessOneToOneChat(c, st)
    [] c.op = "createGroupChat" -> createGroupChat(c, st)
    [] c.op = "renameGroupChat" -> renameGroupChat(c, st)
    [] c.op = "deleteGroupChat" -> deleteGroupChat(c, st)
    [] c.op = "deleteOneToOneChat" -> deleteOneToOneChat(c, st)
    [] c.op = "leaveGroupChat" -> leaveGroupChat(c, st)
    [] c.op = "removeParticipantFromGroupChat" ->
         removeParticipantFromGroupChat(c, st)
    [] OTHER -> Ret(c, st)

\* the database answers the awaited call of a request: its handler resumes
\* and runs to its next await or to its response
ChatStep(r) ==
  /\ calls[r].pc \notin {"idle", "done"}
  /\ calls[r].pc = "create" => chatSeq < Len(NewChatIds)
  /\ ApplyChat(r, chatHandler(calls[r], Store))

vars == <<sockVars, dbVars, chatVars>>

Init == SockInit /\ DbInit /\ ChatInit

Next ==
  \/ \E c \in Conns, hs \in Handshakes : Connect(c, hs)
  \/ \E c \in Conns : ResumeHandshake(c)
  \/ \E c \in Conns, ev \in InboundEvents, r \in RoomIds : ClientEvent(c, ev, r)
  \/ \E c \in Conns : TransportClose(c)
  \/ \E r \in RoomIds, ev \in WritePathEvents : Broadcast(r, ev)

Spec == Init /\ [][Next]_vars

\* User.findById answers every lookup: a suspended connection callback is
\* resumed
SpecLive == Spec /\ \A c \in Conns : WF_vars(ResumeHandshake(c))

\* the inbound side alone: connections and their client events
NextInbound ==
  \/ \E c \in Conns, hs \in Handshakes : Connect(c, hs)
  \/ \E c \in Conns : ResumeHandshake(c)
  \/ \E c \in Conns, ev \in InboundEvents, r \in RoomIds : ClientEvent(c, ev, r)
  \/ \E c \in Conns : TransportClose(c)

SpecInbound == Init /\ [][NextInbound]_vars

\* every pairing of a cookie token with an auth token
Tokens == { NoToken, BadToken, GoodToken("u1"), GoodToken("u2"),
            GoodToken(GhostId) }
AllHandshakes == { Handshake(ck, au) : ck \in Tokens, au \in Tokens }

\* the connection callback alone, over every handshake
NextHandshake ==
  \/ \E c \in Conns, hs \in AllHandshakes : Connect(c, hs)
  \/ \E c \in Conns : ResumeHandshake(c)
  \/ \E c \in Conns : TransportClose(c)

SpecHandshake == Init /\ [][NextHandshake]_vars

\* the message write path over live connections
NextSend ==
  \/ \E c \in Conns, hs \in Handshakes : Connect(c, hs)
  \/ \E c \in Conns : ResumeHandshake(c)
  \/ \E c \in Conns, r \in RoomIds :
        ClientEvent(c, ChatEventEnum.JOIN_CHAT_EVENT, r)
  \/ \E c \in Conns : TransportClose(c)
  \/ \E r \in ReqIds, u \in UserIds, ch \in RequestChatIds,
        content \in BOOLEAN, files \in BOOLEAN :
        SendMessageStart(r, u, ch, content, files)
  \/ \E r \in ReqIds : SendMessageFound(r)
  \/ \E r \in ReqIds : SendMessageCreated(r)
  \/ \E r \in ReqIds : SendMessageUpdated(r)
  \/ \E r \in ReqIds : SendMessageFanout(r)

SpecSend == Init /\ [][NextSend]_vars

\* handshakes that authenticate, with one token each
ValidHandshakes == { hs \in Handshakes :
                       /\ handshakeToken(hs).verifies
                       /\ findById(handshakeToken(hs).sub) # NoUser
                       /\ ~(hs.cookie.present /\ hs.auth.present) }

\* chat ids a request can name
CallChatIds == ChatIds \cup GroupChatIds \cup {MissingChatId}

\* the chat controller over live connections
\* the requests that have reached a handler
Started ==
  Cardinality({q \in ReqIds : reqs[q].pc # "idle"})
    + Cardinality({q \in ReqIds : dels[q].pc # "idle"})
    + Cardinality({q \in ReqIds : calls[q].pc # "idle"})

\* the handle of the first connection
FirstConn == CHOOSE c \in Conns : \A d \in Conns : c <= d

\* the write paths together, observed by one connection; the clients send
\* two requests
NextWrite ==
  \/ \E hs \in ValidHandshakes : Connect(FirstConn, hs)
  \/ ResumeHandshake(FirstConn)
  \/ TransportClose(FirstConn)
  \/ \E r \in ReqIds, u \in UserIds, ch \in RequestChatIds :
        /\ Started < 2
        /\ SendMessageStart(r, u, ch, TRUE, FALSE)
  \/ \E r \in ReqIds : SendMessageFound(r)
  \/ \E r \in ReqIds : SendMessageCreated(r)
  \/ \E r \in ReqIds : SendMessageUpdated(r)
  \/ \E r \in ReqIds : SendMessageFanout(r)
  \/ \E r \in ReqIds, u \in UserIds, ch \in RequestChatIds,
        m \in MessageIds :
        /\ Started < 2
        /\ DeleteMessageStart(r, u, ch, m)
  \/ \E r \in ReqIds : DeleteMessageFoundChat(r)
  \/ \E r \in ReqIds : DeleteMessageFoundMessage(r)
  \/ \E r \in ReqIds : DeleteMessageDeleted(r)
  \/ \E r \in ReqIds : DeleteMessageFoundLast(r)
  \/ \E r \in ReqIds : DeleteMessageUpdatedLast(r)
  \/ \E r \in ReqIds, u \in UserIds, ch \in CallChatIds :
        /\ Started < 2
        /\ \/ DeleteGroupChatCall(r, u, ch)
           \/ DeleteOneToOneChatCall(r, u, ch)
           \/ \E p \in StoredUserIds :
                 RemoveParticipantFromGroupChatCall(r, u, ch, p)
  \/ \E r \in ReqIds, u \in UserIds, ps \in ParticipantLists :
        /\ Started < 2
        /\ CreateGroupChatCall(r, u, "crew", ps)
  \/ \E r \in ReqIds : ChatStep(r)

SpecWrite == Init /\ [][NextWrite]_vars

NextChat ==
  \/ \E c \in Conns, hs \in ValidHandshakes : Connect(c, hs)
  \/ \E c \in Conns : ResumeHandshake(c)
  \/ \E c \in Conns : TransportClose(c)
  \/ \E r \in ReqIds, u \in UserIds, v \in StoredUserIds \cup {GhostId} :
        CreateOrAccessOneToOneChatCall(r, u, v)
  \/ \E r \in ReqIds, u \in UserIds, ps \in ParticipantLists :
        CreateGroupChatCall(r, u, "crew", ps)
  \/ \E r \in ReqIds, u \in UserIds, ch \in CallChatIds :
        RenameGroupChatCall(r, u, ch, "crew")
  \/ \E r \in ReqIds, u \in UserIds, ch \in CallChatIds :
        DeleteGroupChatCall(r, u, ch)
  \/ \E r \in ReqIds, u \in UserIds, ch \in CallChatIds :
        DeleteOneToOneChatCall(r, u, ch)
  \/ \E r \in ReqIds, u \in UserIds, ch \in CallChatIds :
        LeaveGroupChatCall(r, u, ch)
  \/ \E r \in ReqIds, u \in UserIds, ch \in CallChatIds, p \in StoredUserIds :
        RemoveParticipantFromGroupChatCall(r, u, ch, p)
  \/ \E r \in ReqIds : ChatStep(r)

SpecChat == Init /\ [][NextChat]_vars

\* ================================================================ claims
TypingStart == ChatEventEnum.TYPING_EVENT
TypingStop  == ChatEventEnum.STOP_TYPING_EVENT
MessageReceived == ChatEventEnum.MESSAGE_RECEIVED_EVENT

\* the token the handshake of c presented
PresentedToken(c) == handshakeToken(handshake[c])

\* c's handshake presented no token, or one jwt.verify rejects
BadTokenHandshake(c) ==
  /\ pc[c] # "idle"
  /\ ~PresentedToken(c).present \/ ~PresentedToken(c).verifies

\* c's handshake presented a token that verifies and names a stored user
ValidHandshake(c) ==
  /\ pc[c] # "idle"
  /\ PresentedToken(c).present
  /\ PresentedToken(c).verifies
  /\ PresentedToken(c).sub \in UserIds

\* the packets of c's inbox that operation k caused
CausedBy(ib, c, k) == {i \in DOMAIN ib[c] : ib[c][i].cause = k}

\* c's inbox grew by exactly the one packet pkt
GotOne(c, pkt) == inbox'[c] = Append(inbox[c], pkt)

AllRoomKeys ==
  {Str(x) : x \in RoomIds} \cup {Oid(u) : u \in UserIds} \cup DOMAIN rooms

\* C1: a connection whose handshake authentication failed has been closed
\* (it is not left open after the SOCKET_ERROR event) and never became
\* authenticated or Active.
C1_FailedHandshakeIsClosed ==
  \A c \in Conns :
    pc[c] = "failed" =>
      /\ ~connected[c]
      /\ socketUser[c] = NoUser
      /\ ~wasActive[c]

\* C2: a connection whose handshake presented a missing or invalid token is
\* a member of no room and went from Connecting directly to Closed.
C2_BadTokenNoRoomAndClosed ==
  \A c \in Conns :
    BadTokenHandshake(c) =>
      /\ roomsOf(rooms, c) = {}
      /\ ~connected[c]

\* the rooms of an Active connection: its identity room plus the rooms it
\* joined through join-chat events
ActiveRoomsExact(c) ==
  Active(c) =>
    /\ socketUser[c] = PresentedToken(c).sub
    /\ roomsOf(rooms, c) = {Str(socketUser[c])} \cup explicitJoins[c]

\* C3: a connection whose handshake presented a valid token reaches Active
\* (unless the client closes it first), and while it is Active the rooms it
\* is in are exactly its identity room plus the rooms it joined through
\* join-chat events.
C3_ValidHandshakeActiveRooms ==
  /\ [](\A c \in Conns : ActiveRoomsExact(c))
  /\ \A c \in Conns :
       (ValidHandshake(c) /\ connected[c]) ~> (Active(c) \/ ~connected[c])

C3_Witness ==
  \E c \in Conns :
    /\ ValidHandshake(c) /\ Active(c)
    /\ Str("chat42") \in explicitJoins[c]
    /\ Cardinality(roomsOf(rooms, c)) >= 2

\* C4: a handle is in a room's member set if and only if it has executed a
\* join for that room (the identity-room join included) and has not since
\* disconnected or left it.
C4_MemberIffJoined ==
  \A c \in Conns : \A r \in AllRoomKeys :
    (c \in membersOf(rooms, r)) <=> (r \in joinedSince[c])

C4_Witness ==
  \E c, d \in Conns :
    /\ Active(c) /\ Cardinality(joinedSince[c]) = 3
    /\ pc[d] = "done" /\ ~connected[d] /\ closedWith[d] # {}

\* C5: when an Active connection closes, every room membership it held is
\* removed in that step, and from then on the closed connection is in no
\* room and receives nothing.
C5_CloseRemovesEveryMembership ==
  [][ \A c \in Conns :
        /\ (Active(c) /\ ~connected'[c]) => roomsOf(rooms', c) = {}
        /\ (wasActive[c] /\ ~connected[c]) =>
             /\ roomsOf(rooms', c) = {}
             /\ inbox'[c] = inbox[c] ]_vars

C5_Witness ==
  \E c, d \in Conns :
    /\ wasActive[c] /\ ~connected[c]
    /\ Cardinality(closedWith[c]) >= 2
    /\ Active(d)
    /\ \E i \in DOMAIN inbox[d] :
         /\ inbox[d][i].ev = MessageReceived
         /\ Str(inbox[d][i].payload) \in closedWith[c]
         /\ CausedBy(inbox, c, inbox[d][i].cause) = {}

\* C6: no state shows a closed connection in some of the rooms it held when
\* it closed but not in the others.
C6_CleanupAtomic ==
  \A c \in Conns :
    ~connected[c] =>
      LET still == roomsOf(rooms, c) \cap closedWith[c]
      IN  still = {} \/ still = closedWith[c]

C6_Witness ==
  \E c, d \in Conns :
    /\ ~connected[c] /\ Cardinality(closedWith[c]) >= 2
    /\ Active(d)
    /\ roomsOf(rooms, d) \cap closedWith[c] # {}
    /\ closedWith[c] \ roomsOf(rooms, d) # {}

\* C7: a call of emitSocketEvent for a room delivers the event, once, to
\* every connection that is a member of the room at the call and to no
\* other connection.
C7_BroadcastToMembersOnly ==
  [][ \A r \in RoomIds, ev \in WritePathEvents :
        Broadcast(r, ev) =>
          \A c \in Conns :
            IF c \in membersOf(rooms, Str(r))
            THEN GotOne(c, Packet(ev, r, nOps + 1))
            ELSE inbox'[c] = inbox[c] ]_vars

C7_Witness ==
  \E c, d \in Conns : \E i \in DOMAIN inbox[c] :
    /\ inbox[c][i].ev = MessageReceived
    /\ Active(d)
    /\ CausedBy(inbox, d, inbox[c][i].cause) = {}

\* C8: an inbound typing-start (typing-stop) event of an Active connection
\* is re-broadcast as typing-start (typing-stop) to every other member of
\* the room, and never to the sender.
C8_TypingRebroadcast ==
  [][ \A c \in Conns, r \in RoomIds, ev \in {TypingStart, TypingStop} :
        (Active(c) /\ ClientEvent(c, ev, r)) =>
          \A d \in Conns :
            IF d \in membersOf(rooms, Str(r)) \ {c}
            THEN \E i \in DOMAIN inbox'[d] :
                   inbox'[d][i] = Packet(ev, r, nOps + 1)
            ELSE inbox'[d] = inbox[d] ]_vars

\* C9: one inbound typing event, or one broadcast call, gives each
\* recipient the outbound event at most once.
C9_NoDuplicateDelivery ==
  \A c \in Conns : \A k \in 1..nOps :
    Cardinality(CausedBy(inbox, c, k)) <= 1

\* C10: when sendMessage has committed its message and notifies the chat,
\* every open connection of every participant other than the sender gets
\* MESSAGE_RECEIVED with that message, and no other connection gets it.
C10_MessageReceivedFanout ==
  [][ \A r \in ReqIds :
        (SendMessageFanout(r) /\ reqs[r].msg \in {m.id : m \in messages}) =>
          \A c \in Conns :
            LET parts == ChatParticipants[reqs[r].chatId]
                to    == {parts[i] : i \in DOMAIN parts} \ {reqs[r].user}
            IN  IF Active(c) /\ socketUser[c] \in to
                THEN \E i \in DOMAIN inbox'[c] :
                       /\ inbox'[c][i].ev = MessageReceived
                       /\ inbox'[c][i].payload = reqs[r].msg
                       /\ inbox'[c][i].cause = nOps + 1
                ELSE inbox'[c] = inbox[c] ]_vars

\* C11: A (user u1) and B (user u2) are Active and both joined chat42; when
\* u1's message to chat42 is committed and the chat is notified, B gets
\* MESSAGE_RECEIVED once and A gets nothing; a connection that has
\* disconnected is no longer in chat42's member set and gets nothing.
C11_Chat42Scenario ==
  [][ \A r \in ReqIds :
        ( /\ SendMessageFanout(r)
          /\ reqs[r].user = "u1" /\ reqs[r].chatId = "chat42"
          /\ reqs[r].msg \in {m.id : m \in messages} ) =>
          \A c \in Conns :
            /\ ~connected[c] => c \notin membersOf(rooms, Str("chat42"))
            /\ IF /\ Active(c) /\ socketUser[c] = "u2"
                  /\ c \in membersOf(rooms, Str("chat42"))
               THEN GotOne(c, Packet(MessageReceived, reqs[r].msg, nOps + 1))
               ELSE inbox'[c] = inbox[c] ]_vars

JoinChat == ChatEventEnum.JOIN_CHAT_EVENT

\* C15: a client event that arrives at a connection with no authenticated
\* identity (its handshake still awaits the user lookup, or has failed)
\* changes no room membership and delivers nothing to anyone.
C15_NoEventBeforeIdentity ==
  [][ \A c \in Conns, ev \in InboundEvents, r \in RoomIds :
        (ClientEvent(c, ev, r) /\ socketUser[c] = NoUser) =>
          /\ rooms' = rooms
          /\ inbox' = inbox
          /\ joinedSince' = joinedSince ]_vars

\* a typing event has arrived while no connection had an identity: one
\* handshake awaits its lookup, the other has failed and is still open
C15_Witness ==
  /\ nOps >= 1
  /\ \A c \in Conns : socketUser[c] = NoUser /\ ~wasActive[c]
  /\ \E c, d \in Conns :
       /\ connected[c] /\ pc[c] = "await"
       /\ connected[d] /\ pc[d] = "failed"
  /\ rooms = <<>>

\* C16: a join-chat for a room the connection is already a member of leaves
\* the room map as it was: the member set is unchanged and holds the handle
\* once.
C16_JoinIdempotent ==
  [][ \A c \in Conns, r \in RoomIds :
        (ClientEvent(c, JoinChat, r) /\ c \in membersOf(rooms, Str(r))) =>
          /\ rooms' = rooms
          /\ c \in membersOf(rooms', Str(r))
          /\ Cardinality(membersOf(rooms', Str(r))) =
               Cardinality(membersOf(rooms, Str(r))) ]_vars

\* a connection has sent join-chat for its own identity room, which it
\* joined in its handshake, while another connection is in that room too
C16_Witness ==
  \E c, d \in Conns :
    /\ c # d /\ Active(c) /\ Active(d)
    /\ Str(socketUser[c]) \in explicitJoins[c]
    /\ membersOf(rooms, Str(socketUser[c])) = {c, d}

NoEmptyRoom == \A r \in DOMAIN rooms : rooms[r] # {}

\* C17: no state holds a room with an empty member set, and the step in
\* which the last member of a room disconnects removes the room's entry.
C17_EmptyRoomRemoved ==
  /\ []NoEmptyRoom
  /\ [][ \A c \in Conns : \A r \in DOMAIN rooms :
           (rooms[r] = {c} /\ connected[c] /\ ~connected'[c]) =>
             r \notin DOMAIN rooms' ]_vars

\* a connection closed as the only member of one of its rooms, whose entry
\* is gone, while another of its rooms lives on with the other connection
C17_Witness ==
  \E c, d \in Conns :
    /\ ~connected[c] /\ Active(d)
    /\ \E r \in closedWith[c] : r \notin DOMAIN rooms
    /\ \E r \in closedWith[c] : membersOf(rooms, r) = {d}

\* C18: the packets an operation causes are delivered in the step of its
\* call, to the members the room has then; no later step (a later join
\* included) adds one.
C18_BroadcastSnapshot ==
  [][ \A c \in Conns : \A k \in 1..nOps :
        CausedBy(inbox', c, k) = CausedBy(inbox, c, k) ]_vars

\* c is now a member of chat42 and holds no packet of the broadcast to
\* chat42 that d received: c joined after the call
C18_Witness ==
  \E c, d \in Conns : \E i \in DOMAIN inbox[d] :
    /\ inbox[d][i].ev = MessageReceived
    /\ inbox[d][i].payload = "chat42"
    /\ Active(c) /\ Active(d)
    /\ Str("chat42") \in explicitJoins[c]
    /\ c \in membersOf(rooms, Str("chat42"))
    /\ CausedBy(inbox, c, inbox[d][i].cause) = {}

NewChat         == ChatEventEnum.NEW_CHAT_EVENT
UpdateGroupName == ChatEventEnum.UPDATE_GROUP_NAME_EVENT
LeaveChat       == ChatEventEnum.LEAVE_CHAT_EVENT

\* the step in which request r, of one of the handlers ops, answers after
\* its mutation has committed
AnswersCommitted(r, ops) ==
  /\ ChatStep(r)
  /\ calls[r].op \in ops
  /\ calls'[r].pc = "done"
  /\ calls'[r].committed

\* in this step c receives event ev about chat chatId
Receives(c, ev, chatId) ==
  \E i \in DOMAIN inbox'[c] \ DOMAIN inbox[c] :
    /\ inbox'[c][i].ev = ev
    /\ inbox'[c][i].payload = chatId

\* C13: a fanout in which delivery to one target fails (the target has no
\* open connection) still reaches the other targets and the write still
\* answers success: createGroupChat answers 201 and every open connection
\* of its other targets receives NEW_CHAT.
C13_FanoutSurvivesFailure ==
  [][ \A r \in ReqIds :
        ( /\ ChatStep(r)
          /\ calls[r].op = "createGroupChat" /\ calls[r].pc = "created"
          /\ calls[r].chatId \in DOMAIN chats ) =>
          LET targets == elems(chats[calls[r].chatId].participants)
                           \ {calls[r].user}
              failing == {t \in targets : membersOf(rooms, Str(t)) = {}}
          IN  failing # {} =>
                /\ calls'[r].status = 201
                /\ \A c \in Conns :
                     (Active(c) /\ socketUser[c] \in targets) =>
                       Receives(c, NewChat, calls[r].chatId) ]_vars

\* C19: when deleteGroupChat, deleteOneToOneChat or leaveGroupChat has
\* committed, LEAVE_CHAT reaches the identity room of each remaining
\* participant: every open connection of a participant who is left, the
\* requester aside, receives it.
C19_LeaveChatDelivered ==
  [][ \A r \in ReqIds :
        AnswersCommitted(r, {"deleteGroupChat", "deleteOneToOneChat",
                             "leaveGroupChat"}) =>
          LET remaining ==
                IF calls[r].op = "leaveGroupChat"
                THEN elems(chats'[calls[r].chatId].participants)
                ELSE elems(calls[r].chat.participants) \ {calls[r].user}
          IN  \A c \in Conns :
                (Active(c) /\ socketUser[c] \in remaining) =>
                  Receives(c, LeaveChat, calls[r].chatId) ]_vars

\* C20: when createOrAccessOneToOneChat or createGroupChat has created a
\* chat, NEW_CHAT reaches the identity room of each participant, and when
\* renameGroupChat has renamed one, UPDATE_GROUP_NAME does: every open
\* connection of a participant (the creator aside) receives it.
C20_NewChatAndRenameDelivered ==
  [][ \A r \in ReqIds :
        ( /\ AnswersCommitted(r, {"createOrAccessOneToOneChat",
                                  "createGroupChat", "renameGroupChat"})
          /\ calls[r].chatId \in DOMAIN chats ) =>
          LET renamed == calls[r].op = "renameGroupChat"
              parts == elems(chats[calls[r].chatId].participants)
                         \ (IF renamed THEN {} ELSE {calls[r].user})
          IN  \A c \in Conns :
                (Active(c) /\ socketUser[c] \in parts) =>
                  Receives(c, IF renamed THEN UpdateGroupName ELSE NewChat,
                           calls[r].chatId) ]_vars

\* the events the controllers hand to emitSocketEvent
ControllerEvents ==
  { ChatEventEnum.MESSAGE_RECEIVED_EVENT, ChatEventEnum.MESSAGE_DELETE_EVENT,
    ChatEventEnum.NEW_CHAT_EVENT, ChatEventEnum.UPDATE_GROUP_NAME_EVENT,
    ChatEventEnum.LEAVE_CHAT_EVENT }

\* this step delivers a controller event to some connection
Emits ==
  \E c \in Conns : \E i \in DOMAIN inbox'[c] \ DOMAIN inbox[c] :
    inbox'[c][i].ev \in ControllerEvents

SocketError == ChatEventEnum.SOCKET_ERROR_EVENT

\* the SOCKET_ERROR packets c has received
SocketErrors(c) == {i \in DOMAIN inbox[c] : inbox[c][i].ev = SocketError}

\* the token the claim names: the cookie's when present, else the auth field's
ChosenToken(c) ==
  IF handshake[c].cookie.present THEN handshake[c].cookie
  ELSE handshake[c].auth

\* the error the claim names for c's handshake ("" when it names none)
ExpectedError(c) ==
  IF ~handshake[c].cookie.present /\ ~handshake[c].auth.present
  THEN MsgTokenMissing
  ELSE IF ~ChosenToken(c).verifies THEN MsgJwtInvalid
  ELSE IF ChosenToken(c).sub \notin StoredUserIds THEN MsgUserNotFound
  ELSE ""

\* C21: the handshake uses the cookie's token when there is one and the
\* auth field's otherwise; a handshake fails exactly when no token is
\* present, the chosen token does not verify, or no user matches its
\* subject, and the SOCKET_ERROR it emits carries a message that tells the
\* three causes apart.
C21_TokenSourceAndErrors ==
  /\ Cardinality({MsgTokenMissing, MsgJwtInvalid, MsgUserNotFound}) = 3
  /\ \A c \in Conns :
       /\ pc[c] \in {"await", "done"} => decodedToken[c] = ChosenToken(c).sub
       /\ pc[c] = "done" =>
            /\ ExpectedError(c) = ""
            /\ socketUser[c] = ChosenToken(c).sub
            /\ SocketErrors(c) = {}
       /\ pc[c] = "failed" =>
            /\ ExpectedError(c) # ""
            /\ socketUser[c] = NoUser
            /\ Cardinality(SocketErrors(c)) <= 1
            /\ \A i \in SocketErrors(c) :
                 inbox[c][i].payload = ExpectedError(c)
            /\ (connected[c] \/ ExpectedError(c) # MsgUserNotFound) =>
                 SocketErrors(c) # {}

\* one handshake failed on its cookie token although its auth token would
\* verify, another became Active as the cookie's user although its auth
\* token names a different user
C21_Witness ==
  \E c, d \in Conns :
    /\ pc[c] = "failed"
    /\ handshake[c].cookie = BadToken /\ handshake[c].auth.verifies
    /\ \E i \in SocketErrors(c) : inbox[c][i].payload = MsgJwtInvalid
    /\ Active(d)
    /\ handshake[d].cookie.present /\ handshake[d].auth.verifies
    /\ handshake[d].auth.sub # handshake[d].cookie.sub
    /\ socketUser[d] = handshake[d].cookie.sub

\* C22: the members of the identity room of a user are connections
\* authenticated as that user, whatever room ids connections pass to
\* join-chat.
C22_IdentityRoomIsolation ==
  \A u \in UserIds : \A c \in membersOf(rooms, Str(u)) : socketUser[c] = u

MessageDelete == ChatEventEnum.MESSAGE_DELETE_EVENT

\* no sendMessage or deleteMessage call is in flight, and the chat
\* controller was never called
MessageCallsCompleted ==
  \A r \in ReqIds :
    /\ reqs[r].pc \in {"idle", "done"}
    /\ dels[r].pc \in {"idle", "done"}
    /\ calls[r].pc = "idle"

\* the most recently created message that exists in chat ch, 0 when none
LatestIn(ch) ==
  LET ofChat == {m.id : m \in {x \in messages : x.chat = ch}}
  IN  IF ofChat = {} THEN 0
      ELSE CHOOSE i \in ofChat : \A j \in ofChat : j <= i

\* C23: once every sendMessage and deleteMessage call on a chat has
\* completed, the chat's lastMessage is the most recently created message
\* that still exists in the chat, or null when the chat has none.
C23_LastMessageConsistent ==
  MessageCallsCompleted =>
    \A ch \in ChatIds : ch \in DOMAIN chats => chatLast[ch] = LatestIn(ch)

\* the non-group chats both a and b take part in
PairChats(a, b) ==
  {ch \in DOMAIN chats :
     ~chats[ch].isGroupChat /\ {a, b} \subseteq elems(chats[ch].participants)}

\* C24: at most one non-group chat exists for a pair of users, and a
\* completed createOrAccessOneToOneChat call for a pair that has a chat
\* returned it (200), created nothing and emitted nothing.
C24_OneToOneChatUnique ==
  /\ \A a, b \in StoredUserIds : a # b => Cardinality(PairChats(a, b)) <= 1
  /\ \A r \in ReqIds :
       ( /\ calls[r].op = "createOrAccessOneToOneChat"
         /\ calls[r].pc = "done"
         /\ calls[r].user # calls[r].arg
         /\ PairChats(calls[r].user, calls[r].arg) # {} ) =>
         /\ calls[r].status = 200
         /\ ~calls[r].committed
         /\ calls[r].cause = 0

\* C25: deleteMessage removes a message only for a requester who is a
\* participant of the chat and the sender of the message; a step of a
\* call that has removed nothing leaves the messages, lastMessage and
\* every inbox as they were; and when a call that removed the message
\* completes, every open connection of every other participant receives
\* MESSAGE_DELETE for it.
C25_DeleteMessageContract ==
  [][ \A r \in ReqIds :
        /\ (DeleteMessageDeleted(r) /\ messages' # messages) =>
             /\ dels[r].user \in elems(dels[r].parts)
             /\ \A m \in messages \ messages' : m.sender = dels[r].user
        /\ (dels'[r] # dels[r] /\ ~dels'[r].committed) =>
             /\ messages' = messages
             /\ chatLast' = chatLast
             /\ inbox' = inbox
        /\ (dels[r].pc # "done" /\ dels'[r].pc = "done"
              /\ dels'[r].committed) =>
             \A c \in Conns :
               (Active(c) /\ socketUser[c] \in elems(dels[r].parts)
                                               \ {dels[r].user}) =>
                 \E i \in DOMAIN inbox'[c] \ DOMAIN inbox[c] :
                   /\ inbox'[c][i].ev = MessageDelete
                   /\ inbox'[c][i].payload = dels[r].msg ]_vars

====
